---- MODULE Spec2Model ----
(***************************************************************************)
(* Model of risconvert (src/src/main.cpp): the archive reader `extract`,   *)
(* the exact-length stream loops istream::read / ostream::write, the chunk *)
(* copier export_bitmap and the sliding-window decoder ilzrwstream_impl.   *)
(*                                                                         *)
(* The archive is a byte sequence `file`; `pos` is the file offset of the  *)
(* input descriptor.  Every read of the program goes through the loop of   *)
(* istream::read, one try_read per step, and continues at the place named  *)
(* by rd_ret once the requested amount has arrived.  The output files stay *)
(* in the directory with the permission bits they were created with, so a  *)
(* later run may be refused when it opens them again; other failures of    *)
(* open/read/write/lseek (std::system_error) are not modelled: the file    *)
(* system is assumed to work and the archive name to hold a dot.           *)
(***************************************************************************)
EXTENDS Integers, Sequences, FiniteSets, TLC

VARIABLES
    file,                \* the archive's bytes (never modified)
    root,                \* the process may open a file whatever its permission bits
    pos,                 \* offset of the input descriptor, ifstream_impl::m_fd
    pc,                  \* position of the program
    outcome,             \* "none" while running, else how extract ended
    err_args,            \* arguments formatted into the error message
    version, magic, count, offsets, i, type, size,   \* locals of extract / export_*
    rd_ret, rd_amount, rd_remaining, rd_buf,         \* frame of istream::read on the file
    sinks,               \* entry index -> bytes of the output file created for it
    modes,               \* entry index -> the file's mode lets its owner read and write
    buffer,              \* export_bitmap's char buffer[4096]: written slots only
    exp_input, exp_remaining, exp_len,               \* frame of export_bitmap
    wr_remaining,        \* frame of ostream::write
    m_window, m_window_index, m_control_bits, m_control_remaining,  \* ilzrwstream_impl
    dec_amount, dec_remaining,                       \* frame of ilzrwstream_impl::try_read
    dec_start,           \* history: file offset the decoder was bound at
    n_emitted,           \* history: number of bytes the decoder stored through dst
    tokens,              \* history: tokens decoded by the current decoder
    ctrl_words,          \* history: control words read by the current decoder
    last_tok,            \* history: the token decoded last
    n_seek,              \* history: number of seeks performed
    prev                 \* history: how an earlier run on the same archive ended

vars == <<file, root, pos, pc, outcome, err_args, version, magic, count, offsets, i,
          type, size, rd_ret, rd_amount, rd_remaining, rd_buf, sinks, modes, buffer,
          exp_input, exp_remaining, exp_len, wr_remaining, m_window, m_window_index,
          m_control_bits, m_control_remaining, dec_amount, dec_remaining,
          dec_start, n_emitted, tokens, ctrl_words, last_tok, n_seek, prev>>

(***************************************************************************)
(* Bounds of the model.                                                    *)
(***************************************************************************)
MaxSource == 5     \* bytes of the sources of the exact-length reads
MaxRead == 5       \* bytes asked of an exact-length read
MaxCount == 2      \* directory entries of the generated archives
MaxShort == 1      \* a try_read / try_write may fall short by 1..MaxShort bytes
BigSize == 4097    \* payload size of the large plain entry (> one copy buffer)
ManyLits == 18     \* literal bytes of the long compressed stream (> 16 tokens)

(***************************************************************************)
(* Program constants.                                                      *)
(***************************************************************************)
BufSize == 4096          \* char buffer[4096] of export_bitmap
WindowSize == 4096       \* uint8_t m_window[4096]
SupportedVersion == 8    \* if (version == 8)
PlainType == 8           \* if (type == 8)
CompressedType == 9      \* else if (type == 9)
ControlBits == 16        \* m_control_remaining = 16
PermissionDenied == 13   \* errno EACCES of a refused ::open

Byte == 0..255

Min(a, b) == IF a < b THEN a ELSE b

Range(s) == {s[k] : k \in DOMAIN s}

\* "LMDBML30"
BitmapListMagic == <<76, 77, 68, 66, 77, 76, 51, 48>>

(***************************************************************************)
(* Integers as the (little-endian) host stores them.                       *)
(***************************************************************************)
\* the value of the integer whose bytes were read into slots 0..n-1 of b
RECURSIVE LE(_, _)
LE(b, n) == IF n = 0 THEN 0 ELSE b[0] + 256 * LE([k \in 0..(n - 2) |-> b[k + 1]], n - 1)

\* the n bytes of the integer v
RECURSIVE Bytes(_, _)
Bytes(v, n) == IF n = 0 THEN <<>> ELSE <<v % 256>> \o Bytes(v \div 256, n - 1)

\* memory with the bytes bs stored from slot at on
Store(mem, at, bs) ==
    [k \in (DOMAIN mem) \cup (at..(at + Len(bs) - 1)) |->
        IF k >= at /\ k < at + Len(bs) THEN bs[k - at + 1] ELSE mem[k]]

NoMem == [k \in {} |-> 0]

(***************************************************************************)
(* Archives given to the program.  An archive is laid out as the code      *)
(* parses it: version, magic, count, count offsets, then the entries.      *)
(***************************************************************************)
\* kind 8, size, size raw bytes
PlainEntry(payload) == <<PlainType>> \o Bytes(Len(payload), 4) \o payload

\* kind 9, size1, size2, unknown, compressed stream
CompressedEntry(size1, size2, unknown, stream) ==
    <<CompressedType>> \o Bytes(size1, 4) \o Bytes(size2, 4) \o <<unknown>> \o stream

\* a 16-bit back-reference descriptor with the given distance and length
Descriptor(ofs, len) ==
    Bytes((ofs \div 256) * 4096 + (len - 1) * 256 + (ofs % 256), 2)

Pattern(n) == [k \in 1..n |-> (7 * k + 3) % 256]

RECURSIVE Concat(_)
Concat(ss) == IF ss = <<>> THEN <<>> ELSE Head(ss) \o Concat(Tail(ss))

\* offsets of the entries es laid out one after the other from offset base
RECURSIVE Layout(_, _)
Layout(es, base) ==
    IF es = <<>> THEN <<>> ELSE <<base>> \o Layout(Tail(es), base + Len(Head(es)))

Reverse(s) == [k \in 1..Len(s) |-> s[Len(s) + 1 - k]]

Archive(v, mg, es, rev) ==
    LET offs == Layout(es, 13 + 4 * Len(es))
        dir  == IF rev THEN Reverse(offs) ELSE offs
    IN  <<v>> \o mg \o Bytes(Len(es), 4)
             \o Concat([k \in 1..Len(dir) |-> Bytes(dir[k], 4)]) \o Concat(es)

\* an archive with the directory dir, given as offsets into body
ArchiveDir(dir, body) ==
    <<SupportedVersion>> \o BitmapListMagic \o Bytes(Len(dir), 4)
        \o Concat([k \in 1..Len(dir) |-> Bytes(13 + 4 * Len(dir) + dir[k], 4)]) \o body

EmptyPlain == PlainEntry(<<>>)
SmallPlain == PlainEntry(<<222, 173, 190, 239>>)
BigPlain == PlainEntry(Pattern(BigSize))
UnknownEntry == <<255>>
\* literal 'A', then distance 1 length 4: control word 0x0002, decoded size 5
RunEntry == CompressedEntry(5, 5, 0, <<2, 0, 65>> \o Descriptor(1, 4))
\* decoded size 0
EmptyCompressed == CompressedEntry(0, 0, 0, <<>>)
\* back-references only: control word 0xffff
RefEntry ==
    CompressedEntry(3, 8, 0, <<255, 255>> \o Descriptor(0, 1) \o Descriptor(1, 1)
                                         \o Descriptor(1, 16) \o Descriptor(4095, 2))
\* one back-reference: control word 0xffff, distance 0 length 1
OneRefEntry == CompressedEntry(3, 4, 0, <<255, 255>> \o Descriptor(0, 1))
\* literals only: control word 0x0000 and ManyLits literal bytes, 16 of them asked for
LiteralEntry == CompressedEntry(16, ManyLits + 2, 0, <<0, 0>> \o Pattern(ManyLits))

\* a plain entry whose payload is itself laid out as a plain entry of size 1
NestedPlain == PlainEntry(<<PlainType, 1, 0, 0, 0, 77>>)

\* directories with repeated offsets and with offsets into one another's entries
OverlapArchives ==
    {ArchiveDir(<<0, 0>>, SmallPlain),
     ArchiveDir(<<0, 5>>, NestedPlain),
     ArchiveDir(<<5, 0>>, NestedPlain),
     ArchiveDir(<<5, 5>>, NestedPlain)}

SmallEntries ==
    {EmptyPlain, SmallPlain, UnknownEntry, RunEntry, EmptyCompressed, LiteralEntry}

RECURSIVE SeqsUpTo(_, _)
SeqsUpTo(S, n) ==
    IF n = 0 THEN {<<>>}
    ELSE LET shorter == SeqsUpTo(S, n - 1)
         IN  shorter \cup {Append(s, x) : s \in {t \in shorter : Len(t) = n - 1}, x \in S}

BadMagics ==
    {<<76, 77, 68, 66, 77, 76, 51, 49>>,     \* "LMDBML31"
     <<0, 0, 0, 0, 0, 0, 0, 0>>}

Prefixes(s) == {SubSeq(s, 1, n) : n \in 0..Len(s)}

Archives ==
    {Archive(SupportedVersion, BitmapListMagic, es, rev) :
        es \in SeqsUpTo(SmallEntries, MaxCount), rev \in BOOLEAN}
    \cup {Archive(v, BitmapListMagic, <<SmallPlain>>, FALSE) : v \in {0, 7, 9, 255}}
    \cup {Archive(SupportedVersion, mg, <<SmallPlain>>, FALSE) : mg \in BadMagics}
    \cup Prefixes(Archive(SupportedVersion, BitmapListMagic, <<SmallPlain, LiteralEntry>>, FALSE))
    \cup Prefixes(Archive(SupportedVersion, BitmapListMagic, <<OneRefEntry>>, FALSE))
    \cup {Archive(SupportedVersion, BitmapListMagic, es, FALSE) :
            es \in {<<RefEntry>>, <<SmallPlain, OneRefEntry>>, <<EmptyCompressed, OneRefEntry>>}}
    \cup OverlapArchives
    \cup {Archive(SupportedVersion, BitmapListMagic, <<BigPlain>>, FALSE),
          Archive(SupportedVersion, BitmapListMagic, <<LiteralEntry, BigPlain>>, FALSE)}

(***************************************************************************)
(* Memory is kept as the slots that were written.  A read returns only     *)
(* once every byte asked for has been stored, so the destination of a      *)
(* completed read is read at written slots only.                           *)
(***************************************************************************)
MemAt(mem, k) == mem[k]

\* the integer held by slots 0..n-1 of the destination of a read
Value(mem, n) == LE([k \in 0..(n - 1) |-> MemAt(mem, k)], n)

\* the 16-bit member word with the bytes bs stored from its byte at on
StoreWord(word, at, bs) == LE(Store([k \in 0..1 |-> Bytes(word, 2)[k + 1]], at, bs), 2)

(***************************************************************************)
(* The stream layer.                                                       *)
(***************************************************************************)
\* ::read(m_fd, buffer, amount) on a regular file with avail bytes ahead
ReadCounts(amount, avail) ==
    IF amount > 0
      THEN IF avail <= 0 THEN {0}
           ELSE {c \in {Min(amount, avail) - k : k \in 0..MaxShort} : c >= 1}
      ELSE {0}

\* ::write(m_fd, buffer, amount)
WriteCounts(amount) ==
    IF amount > 0 THEN {c \in {amount - k : k \in 0..MaxShort} : c >= 1} ELSE {0}

\* the loop left by `break` on a zero result instead of the throw
LoopStepBreak(remaining, result) ==
    IF result > 0 THEN [throw |-> FALSE, remaining |-> remaining - result]
    ELSE [throw |-> FALSE, remaining |-> 0]

\* one turn of the loop of istream::read / ostream::write on the result of try_*
LoopStep(remaining, result) ==
    IF result > 0 THEN [throw |-> FALSE, remaining |-> remaining - result]
    ELSE [throw |-> TRUE, remaining |-> remaining]

\* dst = buffer, without the offset
DstOffsetZero(amount, remaining) == 0

\* offset = amount - remaining
DstOffset(amount, remaining) == amount - remaining

Throw(what, args) ==
    /\ outcome' = what
    /\ err_args' = args
    /\ pc' = "halt"

\* stream.read(dst, n), continuing at ret
BeginRead(n, ret) ==
    /\ pc' = "rd"
    /\ rd_ret' = ret
    /\ rd_amount' = n
    /\ rd_remaining' = n
    /\ rd_buf' = NoMem

hdr == <<version, magic, count, offsets>>
rdv == <<rd_ret, rd_amount, rd_remaining, rd_buf>>
expv == <<exp_input, exp_remaining, exp_len>>
decv == <<m_window, m_window_index, m_control_bits, m_control_remaining>>
decf == <<dec_amount, dec_remaining>>
hist == <<dec_start, n_emitted, tokens, ctrl_words, last_tok>>

NoRun == [runs |-> 0]

\* the program started on one of the archives of S
InitOn(S) ==
    /\ file \in S
    /\ root = FALSE
    /\ prev = NoRun
    /\ pos = 0
    /\ pc = "start"
    /\ outcome = "none"
    /\ err_args = <<>>
    /\ version = 0 /\ magic = <<>> /\ count = 0 /\ offsets = <<>>
    /\ i = 0 /\ type = 0 /\ size = 0
    /\ rd_ret = "" /\ rd_amount = 0 /\ rd_remaining = 0 /\ rd_buf = NoMem
    /\ sinks = NoMem /\ modes = NoMem
    /\ buffer = NoMem
    /\ exp_input = "" /\ exp_remaining = 0 /\ exp_len = 0
    /\ wr_remaining = 0
    /\ m_window = NoMem /\ m_window_index = 0 /\ m_control_bits = 0
    /\ m_control_remaining = 0
    /\ dec_amount = 0 /\ dec_remaining = 0
    /\ dec_start = 0 /\ n_emitted = 0 /\ tokens = 0 /\ ctrl_words = 0
    /\ last_tok = [kind |-> "none", ofs |-> 0, len |-> 0, before |-> 0]
    /\ n_seek = 0

Init == InitOn(Archives)

\* extract: open the archive and read the version byte
Extract ==
    /\ pc = "start"
    /\ BeginRead(1, "version")
    /\ UNCHANGED <<file, root, prev, pos, outcome, err_args, hdr, i, type, size, sinks,
                   modes, buffer, expv, wr_remaining, decv, decf, hist, n_seek>>

\* istream::read, one turn: ifstream_impl::try_read, then the test of its result
TryRead ==
    /\ pc = "rd"
    /\ rd_remaining > 0
    /\ \E result \in ReadCounts(rd_remaining, Len(file) - pos) :
        LET step == LoopStep(rd_remaining, result)
            bytes == SubSeq(file, pos + 1, pos + result)
            offset == DstOffset(rd_amount, rd_remaining)
        IN  /\ pos' = pos + result
            /\ CASE rd_ret = "chunk" ->
                       /\ buffer' = Store(buffer, offset, bytes)
                       /\ UNCHANGED <<rd_buf, m_control_bits>>
                 [] rd_ret = "control" ->
                       /\ m_control_bits' = StoreWord(m_control_bits, offset, bytes)
                       /\ UNCHANGED <<rd_buf, buffer>>
                 [] OTHER ->
                       /\ rd_buf' = Store(rd_buf, offset, bytes)
                       /\ UNCHANGED <<buffer, m_control_bits>>
            /\ IF step.throw
                 THEN /\ Throw("end_of_stream", <<>>)
                      /\ UNCHANGED rd_remaining
                 ELSE /\ rd_remaining' = step.remaining
                      /\ UNCHANGED <<pc, outcome, err_args>>
    /\ UNCHANGED <<file, root, prev, hdr, i, type, size, rd_ret, rd_amount, sinks, modes,
                   expv, wr_remaining, m_window, m_window_index, m_control_remaining,
                   decf, hist, n_seek>>

\* istream::read left its loop: remaining is 0, the amount bytes are in place
Returned(ret) ==
    /\ pc = "rd"
    /\ rd_remaining = 0
    /\ rd_ret = ret
    /\ CASE ret = "chunk" -> 0..(rd_amount - 1) \subseteq DOMAIN buffer
         [] ret = "control" -> TRUE
         [] OTHER -> 0..(rd_amount - 1) \subseteq DOMAIN rd_buf

\* version >= 8 in place of version == 8
IsSupportedAtLeast(v) == v >= SupportedVersion

\* if (version == 8)
IsSupported(v) == v = SupportedVersion

\* version == 8: read the magic
GotVersionOk ==
    /\ Returned("version")
    /\ IsSupported(Value(rd_buf, 1))
    /\ version' = Value(rd_buf, 1)
    /\ BeginRead(8, "magic")
    /\ UNCHANGED <<file, root, prev, pos, outcome, err_args, magic, count, offsets, i,
                   type, size, sinks, modes, buffer, expv, wr_remaining, decv, decf, hist,
                   n_seek>>

\* throw error("unknown version: %u", version)
GotVersionBad ==
    /\ Returned("version")
    /\ ~IsSupported(Value(rd_buf, 1))
    /\ version' = Value(rd_buf, 1)
    /\ Throw("unknown_version", <<Value(rd_buf, 1)>>)
    /\ UNCHANGED <<file, root, prev, pos, magic, count, offsets, i, type, size, rdv,
                   sinks, modes, buffer, expv, wr_remaining, decv, decf, hist, n_seek>>

\* memcmp over seven bytes in place of sizeof(magic)
is_bitmap_list_short(mg) == \A k \in 1..7 : mg[k] = BitmapListMagic[k]

\* memcmp(&magic, "LMDBML30", sizeof(magic)) == 0
is_bitmap_list(mg) == \A k \in 1..8 : mg[k] = BitmapListMagic[k]

\* the magic matches: read the entry count
GotMagicOk ==
    /\ Returned("magic")
    /\ is_bitmap_list([k \in 1..8 |-> MemAt(rd_buf, k - 1)])
    /\ magic' = [k \in 1..8 |-> MemAt(rd_buf, k - 1)]
    /\ BeginRead(4, "count")
    /\ UNCHANGED <<file, root, prev, pos, outcome, err_args, version, count, offsets, i,
                   type, size, sinks, modes, buffer, expv, wr_remaining, decv, decf, hist,
                   n_seek>>

\* puts("Does not contain images")
GotMagicBad ==
    /\ Returned("magic")
    /\ ~is_bitmap_list([k \in 1..8 |-> MemAt(rd_buf, k - 1)])
    /\ magic' = [k \in 1..8 |-> MemAt(rd_buf, k - 1)]
    /\ outcome' = "no_images"
    /\ pc' = "halt"
    /\ UNCHANGED <<file, root, prev, pos, err_args, version, count, offsets, i, type,
                   size, rdv, sinks, modes, buffer, expv, wr_remaining, decv, decf, hist,
                   n_seek>>

\* count read; std::vector<uint32_t> offsets(count)
GotCount ==
    /\ Returned("count")
    /\ count' = Value(rd_buf, 4)
    /\ offsets' = <<>>
    /\ pc' = "offsets"
    /\ UNCHANGED <<file, root, prev, pos, outcome, err_args, version, magic, i, type,
                   size, rdv, sinks, modes, buffer, expv, wr_remaining, decv, decf, hist,
                   n_seek>>

\* the loop stopped one offset early: i < count - 1
TableCompleteEarly(n, c) == n >= c - 1

\* the exit test of for (i = 0; i < count; ++i) after n turns
TableComplete(n, c) == n >= c

\* for (i < count) offsets[i] = read<uint32_t>(): the next offset is asked for
OffsetsNext ==
    /\ pc = "offsets"
    /\ ~TableComplete(Len(offsets), count)
    /\ BeginRead(4, "offset")
    /\ UNCHANGED <<file, root, prev, pos, outcome, err_args, hdr, i, type, size, sinks,
                   modes, buffer, expv, wr_remaining, decv, decf, hist, n_seek>>

GotOffset ==
    /\ Returned("offset")
    /\ offsets' = Append(offsets, Value(rd_buf, 4))
    /\ pc' = "offsets"
    /\ UNCHANGED <<file, root, prev, pos, outcome, err_args, version, magic, count, i,
                   type, size, rdv, sinks, modes, buffer, expv, wr_remaining, decv, decf,
                   hist, n_seek>>

\* the table is complete: the entry loop starts at i = 0
OffsetsDone ==
    /\ pc = "offsets"
    /\ TableComplete(Len(offsets), count)
    /\ i' = 0
    /\ pc' = "entries"
    /\ UNCHANGED <<file, root, prev, pos, outcome, err_args, hdr, type, size, rdv, sinks,
                   modes, buffer, expv, wr_remaining, decv, decf, hist, n_seek>>

\* ::lseek with SEEK_CUR in place of SEEK_SET
SeekToCurrent(p, off) == p + off

\* ::lseek(m_fd, offset, SEEK_SET): the new file offset
SeekTo(p, off) == off

\* stream->seek(offsets[i]); read the type byte
EntryNext ==
    /\ pc = "entries"
    /\ i < count
    /\ pos' = SeekTo(pos, offsets[i + 1])
    /\ n_seek' = n_seek + 1
    /\ BeginRead(1, "type")
    /\ UNCHANGED <<file, root, prev, outcome, err_args, hdr, i, type, size, sinks, modes,
                   buffer, expv, wr_remaining, decv, decf, hist>>

\* the entry loop is over: extract returns
EntriesDone ==
    /\ pc = "entries"
    /\ i >= count
    /\ outcome' = "done"
    /\ pc' = "halt"
    /\ UNCHANGED <<file, root, prev, pos, err_args, hdr, i, type, size, rdv, sinks, modes,
                   buffer, expv, wr_remaining, decv, decf, hist, n_seek>>

(***************************************************************************)
(* Entry dispatch and the exporters.                                       *)
(***************************************************************************)
\* the dispatch without its final else: every type but 8 is taken as compressed
DispatchNoElse(t) == IF t = PlainType THEN "plain" ELSE "compressed"

\* if (type == 8) ... else if (type == 9) ... else throw
Dispatch(t) ==
    IF t = PlainType THEN "plain" ELSE IF t = CompressedType THEN "compressed" ELSE "unknown"

\* export_plain_bitmap: read the size
GotTypePlain ==
    /\ Returned("type")
    /\ Dispatch(Value(rd_buf, 1)) = "plain"
    /\ type' = Value(rd_buf, 1)
    /\ BeginRead(4, "size")
    /\ UNCHANGED <<file, root, prev, pos, outcome, err_args, hdr, i, size, sinks, modes,
                   buffer, expv, wr_remaining, decv, decf, hist, n_seek>>

\* export_compressed_bitmap: read size1
GotTypeCompressed ==
    /\ Returned("type")
    /\ Dispatch(Value(rd_buf, 1)) = "compressed"
    /\ type' = Value(rd_buf, 1)
    /\ BeginRead(4, "size1")
    /\ UNCHANGED <<file, root, prev, pos, outcome, err_args, hdr, i, size, sinks, modes,
                   buffer, expv, wr_remaining, decv, decf, hist, n_seek>>

\* throw error("unknown type: %u", type)
GotTypeUnknown ==
    /\ Returned("type")
    /\ Dispatch(Value(rd_buf, 1)) = "unknown"
    /\ type' = Value(rd_buf, 1)
    /\ Throw("unknown_type", <<Value(rd_buf, 1)>>)
    /\ UNCHANGED <<file, root, prev, pos, hdr, i, size, rdv, sinks, modes, buffer, expv,
                   wr_remaining, decv, decf, hist, n_seek>>

\* ::open of an existing file for O_RDWR: the mode must let the owner read and
\* write, unless the process may override the permission bits
OpenGranted(owner_rw) == root \/ owner_rw

\* export_bitmap(input, filename, amount): ofstream::create(filename) opens the
\* output file with O_RDWR | O_TRUNC | O_CREAT and no mode argument, so a file
\* it creates gets whatever mode bits the call finds; then the loop is entered
EnterExport(input, amount) ==
    IF i \in DOMAIN sinks /\ ~OpenGranted(modes[i])
      THEN /\ Throw("system_error", <<PermissionDenied>>)
           /\ UNCHANGED <<sinks, modes, buffer, expv>>
      ELSE /\ sinks' = [k \in (DOMAIN sinks) \cup {i} |-> IF k = i THEN <<>> ELSE sinks[k]]
           /\ \E owner_rw \in (IF i \in DOMAIN modes THEN {modes[i]} ELSE BOOLEAN) :
                  modes' = [k \in (DOMAIN modes) \cup {i} |->
                               IF k = i THEN owner_rw ELSE modes[k]]
           /\ buffer' = NoMem
           /\ exp_input' = input
           /\ exp_remaining' = amount
           /\ exp_len' = 0
           /\ pc' = "export"
           /\ UNCHANGED <<outcome, err_args>>

\* export_plain_bitmap: size read, export_bitmap(stream, name, size)
GotSize ==
    /\ Returned("size")
    /\ size' = Value(rd_buf, 4)
    /\ EnterExport("file", Value(rd_buf, 4))
    /\ UNCHANGED <<file, root, prev, pos, hdr, i, type, rdv, wr_remaining, decv, decf,
                   hist, n_seek>>

\* export_compressed_bitmap: size1 read, read size2
GotSize1 ==
    /\ Returned("size1")
    /\ size' = Value(rd_buf, 4)
    /\ BeginRead(4, "size2")
    /\ UNCHANGED <<file, root, prev, pos, outcome, err_args, hdr, i, type, sinks, modes,
                   buffer, expv, wr_remaining, decv, decf, hist, n_seek>>

\* size2 read (not used), read the unknown byte
GotSize2 ==
    /\ Returned("size2")
    /\ BeginRead(1, "unknown")
    /\ UNCHANGED <<file, root, prev, pos, outcome, err_args, hdr, i, type, size, sinks,
                   modes, buffer, expv, wr_remaining, decv, decf, hist, n_seek>>

\* unknown byte read (not used); ilzrwstream::wrap(stream): the constructor sets
\* the cursor and the control state and leaves m_window as allocated;
\* export_bitmap(*compressed, name, size1)
GotUnknown ==
    /\ Returned("unknown")
    /\ m_window' = NoMem
    /\ m_window_index' = 0
    /\ m_control_bits' = 0
    /\ m_control_remaining' = 0
    /\ dec_start' = pos
    /\ n_emitted' = 0
    /\ tokens' = 0
    /\ ctrl_words' = 0
    /\ last_tok' = [kind |-> "none", ofs |-> 0, len |-> 0, before |-> 0]
    /\ EnterExport("lzrw", size)
    /\ UNCHANGED <<file, root, prev, pos, hdr, i, type, size, rdv, wr_remaining, decf,
                   n_seek>>

\* len = sizeof(buffer), without the std::min
ChunkLenNoMin(remaining) == BufSize

\* len = std::min(remaining, sizeof(buffer))
ChunkLen(remaining) == Min(remaining, BufSize)

\* export_bitmap, loop turn on a plain entry: input.read(buffer, len) on the file
ExportChunkFile ==
    /\ pc = "export"
    /\ exp_remaining > 0
    /\ exp_input = "file"
    /\ exp_len' = ChunkLen(exp_remaining)
    /\ BeginRead(ChunkLen(exp_remaining), "chunk")
    /\ UNCHANGED <<file, root, prev, pos, outcome, err_args, hdr, i, type, size, sinks,
                   modes, buffer, exp_input, exp_remaining, wr_remaining, decv, decf,
                   hist, n_seek>>

\* export_bitmap, loop turn on a compressed entry: input.read(buffer, len) is
\* istream::read on the decoder, whose first turn calls try_read(buffer, len)
ExportChunkDecoder ==
    /\ pc = "export"
    /\ exp_remaining > 0
    /\ exp_input = "lzrw"
    /\ exp_len' = ChunkLen(exp_remaining)
    /\ dec_amount' = ChunkLen(exp_remaining)
    /\ dec_remaining' = ChunkLen(exp_remaining)
    /\ pc' = "dec_loop"
    /\ UNCHANGED <<file, root, prev, pos, outcome, err_args, hdr, i, type, size, rdv,
                   sinks, modes, buffer, exp_input, exp_remaining, wr_remaining, decv,
                   hist, n_seek>>

\* input.read returned: output->write(buffer, len)
GotChunk ==
    /\ Returned("chunk")
    /\ wr_remaining' = exp_len
    /\ pc' = "wr"
    /\ UNCHANGED <<file, root, prev, pos, outcome, err_args, hdr, i, type, size, rdv,
                   sinks, modes, buffer, expv, decv, decf, hist, n_seek>>

\* ostream::write, one turn: ofstream_impl::try_write, then the test of its result
TryWrite ==
    /\ pc = "wr"
    /\ wr_remaining > 0
    /\ \E result \in WriteCounts(wr_remaining) :
        LET step == LoopStep(wr_remaining, result)
            offset == DstOffset(exp_len, wr_remaining)
            unwritten == (offset..(offset + result - 1)) \ DOMAIN buffer
        IN  /\ \E rest \in [unwritten -> Byte] :
                   sinks' = [sinks EXCEPT ![i] =
                               @ \o [k \in 1..result |->
                                        IF offset + k - 1 \in DOMAIN buffer
                                          THEN MemAt(buffer, offset + k - 1)
                                          ELSE rest[offset + k - 1]]]
            /\ IF step.throw
                 THEN /\ Throw("end_of_stream", <<>>)
                      /\ UNCHANGED wr_remaining
                 ELSE /\ wr_remaining' = step.remaining
                      /\ UNCHANGED <<pc, outcome, err_args>>
    /\ UNCHANGED <<file, root, prev, pos, hdr, i, type, size, rdv, modes, buffer, expv,
                   decv, decf, hist, n_seek>>

\* output->write returned: remaining -= len
WriteDone ==
    /\ pc = "wr"
    /\ wr_remaining = 0
    /\ exp_remaining' = exp_remaining - exp_len
    /\ pc' = "export"
    /\ UNCHANGED <<file, root, prev, pos, outcome, err_args, hdr, i, type, size, rdv,
                   sinks, modes, buffer, exp_input, exp_len, wr_remaining, decv, decf,
                   hist, n_seek>>

\* export_bitmap returns (the output file is closed): ++i
ExportReturn ==
    /\ pc = "export"
    /\ exp_remaining <= 0
    /\ i' = i + 1
    /\ pc' = "entries"
    /\ UNCHANGED <<file, root, prev, pos, outcome, err_args, hdr, type, size, rdv, sinks,
                   modes, buffer, expv, wr_remaining, decv, decf, hist, n_seek>>

(***************************************************************************)
(* ilzrwstream_impl::try_read(buffer, amount).  The loop neither changes   *)
(* `remaining` nor consumes a control bit, so it is left only by the       *)
(* end_of_stream of a read on the underlying stream.                       *)
(***************************************************************************)
\* ofs with the low byte masked by 0x7f
RefOfsLowSeven(tmp) == ((tmp \div 4096) % 16) * 256 + (tmp % 128)

\* ofs = ((tmp & 0xf000) >> 4) | (tmp & 0xff)
RefOfs(tmp) == ((tmp \div 4096) % 16) * 256 + (tmp % 256)

\* len = ((tmp & 0xf00) >> 8) + 1
RefLen(tmp) == ((tmp \div 256) % 16) + 1

\* index = ((m_window_index + (sizeof(m_window) - ofs)) % sizeof(m_window)) + i
RefIndex(widx, ofs, k) == ((widx + (WindowSize - ofs)) % WindowSize) + k

\* m_window[index]: the values the read can give.  A slot that was never
\* written holds any byte.  An index past the array reads what lies behind
\* it in the object: the two bytes of m_window_index, the two bytes of
\* m_control_bits, m_control_remaining, then padding and the memory after the
\* object, which hold any byte.
WindowAt(index) ==
    IF index < WindowSize
      THEN IF index \in DOMAIN m_window THEN {m_window[index]} ELSE Byte
    ELSE IF index = WindowSize THEN {m_window_index % 256}
    ELSE IF index = WindowSize + 1 THEN {m_window_index \div 256}
    ELSE IF index = WindowSize + 2 THEN {m_control_bits % 256}
    ELSE IF index = WindowSize + 3 THEN {m_control_bits \div 256}
    ELSE IF index = WindowSize + 4 THEN {m_control_remaining}
    ELSE Byte

\* m_control_bits & 0x1
IsReference(bits) == bits % 2 = 1

\* the loop left with `return amount` once amount bytes went through dst
DecLoopReturns ==
    /\ pc = "dec_loop"
    /\ IF n_emitted < dec_amount
         THEN /\ IF m_control_remaining = 0
                   THEN BeginRead(2, "control")
                   ELSE pc' = "dec_token" /\ UNCHANGED rdv
              /\ UNCHANGED wr_remaining
         ELSE /\ wr_remaining' = exp_len
              /\ pc' = "wr"
              /\ UNCHANGED rdv
    /\ UNCHANGED <<file, root, prev, pos, outcome, err_args, hdr, i, type, size, sinks,
                   modes, buffer, expv, decv, decf, hist, n_seek>>

\* top of the loop: remaining > 0; a control word is read when none is pending
DecLoop ==
    /\ pc = "dec_loop"
    /\ IF dec_remaining > 0
         THEN /\ IF m_control_remaining = 0
                   THEN BeginRead(2, "control")
                   ELSE pc' = "dec_token" /\ UNCHANGED rdv
              /\ UNCHANGED <<outcome, err_args>>
         ELSE \* return 0: istream::read sees result 0 and throws
              /\ Throw("end_of_stream", <<>>)
              /\ UNCHANGED rdv
    /\ UNCHANGED <<file, root, prev, pos, hdr, i, type, size, sinks, modes, buffer, expv,
                   wr_remaining, decv, decf, hist, n_seek>>

\* m_stream.read(m_control_bits) returned, the word is in the member;
\* m_control_remaining = 16
GotControl ==
    /\ Returned("control")
    /\ m_control_remaining' = ControlBits
    /\ ctrl_words' = ctrl_words + 1
    /\ pc' = "dec_token"
    /\ UNCHANGED <<file, root, prev, pos, outcome, err_args, hdr, i, type, size, rdv,
                   sinks, modes, buffer, expv, wr_remaining, m_window, m_window_index,
                   m_control_bits, decf, dec_start, n_emitted, tokens, last_tok, n_seek>>

\* bit 0 of the control word is set: read the descriptor
TokenReference ==
    /\ pc = "dec_token"
    /\ IsReference(m_control_bits)
    /\ BeginRead(2, "descriptor")
    /\ UNCHANGED <<file, root, prev, pos, outcome, err_args, hdr, i, type, size, sinks,
                   modes, buffer, expv, wr_remaining, decv, decf, hist, n_seek>>

\* bit 0 of the control word is clear: read the literal
TokenLiteral ==
    /\ pc = "dec_token"
    /\ ~IsReference(m_control_bits)
    /\ BeginRead(1, "literal")
    /\ UNCHANGED <<file, root, prev, pos, outcome, err_args, hdr, i, type, size, sinks,
                   modes, buffer, expv, wr_remaining, decv, decf, hist, n_seek>>

\* descriptor read: tmp holds it; ofs and len are taken from its bit fields
GotDescriptor ==
    /\ Returned("descriptor")
    /\ last_tok' = [kind |-> "reference", ofs |-> RefOfs(Value(rd_buf, 2)),
                    len |-> RefLen(Value(rd_buf, 2)), before |-> n_emitted]
    /\ pc' = "dec_copy"
    /\ UNCHANGED <<file, root, prev, pos, outcome, err_args, hdr, i, type, size, rdv,
                   sinks, modes, buffer, expv, wr_remaining, decv, decf, dec_start,
                   n_emitted, tokens, ctrl_words, n_seek>>

\* for (i < len) *dst = m_window[index]: every byte goes through the same dst,
\* which keeps the byte read last; the window and the cursor stay as they are
CopyReference ==
    /\ pc = "dec_copy"
    /\ LET tmp == Value(rd_buf, 2)
           ofs == RefOfs(tmp)
           len == RefLen(tmp)
           offset == DstOffset(dec_amount, dec_remaining)
       IN  /\ \E value \in WindowAt(RefIndex(m_window_index, ofs, len - 1)) :
                  buffer' = Store(buffer, offset, <<value>>)
           /\ n_emitted' = n_emitted + len
    /\ tokens' = tokens + 1
    /\ pc' = "dec_loop"
    /\ UNCHANGED <<file, root, prev, pos, outcome, err_args, hdr, i, type, size, rdv,
                   sinks, modes, expv, wr_remaining, decv, decf, dec_start, ctrl_words,
                   last_tok, n_seek>>

\* literal read: *dst = value; m_window[m_window_index] = value; advance the cursor
GotLiteral ==
    /\ Returned("literal")
    /\ LET value == Value(rd_buf, 1)
           offset == DstOffset(dec_amount, dec_remaining)
       IN  /\ buffer' = Store(buffer, offset, <<value>>)
           /\ m_window' = Store(m_window, m_window_index, <<value>>)
    /\ n_emitted' = n_emitted + 1
    /\ m_window_index' = (m_window_index + 1) % WindowSize
    /\ last_tok' = [kind |-> "literal", ofs |-> 0, len |-> 1, before |-> n_emitted]
    /\ tokens' = tokens + 1
    /\ pc' = "dec_loop"
    /\ UNCHANGED <<file, root, prev, pos, outcome, err_args, hdr, i, type, size, rdv,
                   sinks, modes, expv, wr_remaining, m_control_bits, m_control_remaining,
                   decf, dec_start, ctrl_words, n_seek>>

Next ==
    \/ Extract
    \/ TryRead
    \/ GotVersionOk
    \/ GotVersionBad
    \/ GotMagicOk
    \/ GotMagicBad
    \/ GotCount
    \/ OffsetsNext
    \/ GotOffset
    \/ OffsetsDone
    \/ EntryNext
    \/ EntriesDone
    \/ GotTypePlain
    \/ GotTypeCompressed
    \/ GotTypeUnknown
    \/ GotSize
    \/ GotSize1
    \/ GotSize2
    \/ GotUnknown
    \/ ExportChunkFile
    \/ ExportChunkDecoder
    \/ GotChunk
    \/ TryWrite
    \/ WriteDone
    \/ ExportReturn
    \/ DecLoop
    \/ GotControl
    \/ TokenReference
    \/ TokenLiteral
    \/ GotDescriptor
    \/ CopyReference
    \/ GotLiteral

Spec == Init /\ [][Next]_vars

(***************************************************************************)
(* The program run a second time on the same archive in the same           *)
(* directory, by the same user or by one who may override permission bits: *)
(* the output files of the first run are still there, with their modes;    *)
(* how the first run ended is kept in prev; the process starts afresh.     *)
(***************************************************************************)
\* compressed entries asking for one decoded byte
RunEntryOne == CompressedEntry(1, 5, 0, <<2, 0, 65>> \o Descriptor(1, 4))
RefEntryOne == CompressedEntry(1, 4, 0, <<255, 255>> \o Descriptor(0, 1))
LiteralEntryOne == CompressedEntry(1, 5, 0, <<0, 0>> \o Pattern(3))

LiteralEntries == {RunEntryOne, EmptyCompressed, LiteralEntryOne}

TwiceArchives ==
    {Archive(SupportedVersion, BitmapListMagic, es, FALSE) :
        es \in SeqsUpTo(LiteralEntries, MaxCount)}
    \cup {Archive(SupportedVersion, BitmapListMagic, <<e, RefEntryOne>>, FALSE) :
            e \in {SmallPlain, EmptyCompressed}}
    \cup {Archive(SupportedVersion, BitmapListMagic, <<SmallPlain, e>>, FALSE) :
            e \in LiteralEntries \cup {UnknownEntry}}
    \cup {Archive(7, BitmapListMagic, <<RefEntryOne>>, FALSE)}
    \cup {Archive(SupportedVersion, mg, <<RefEntryOne>>, FALSE) : mg \in BadMagics}
    \cup Prefixes(Archive(SupportedVersion, BitmapListMagic, <<RefEntryOne>>, FALSE))

InitTwice == InitOn(TwiceArchives)

\* the byte the decoder stored last through dst
Stored == buffer[DstOffset(dec_amount, dec_remaining)]

RunAgain ==
    /\ pc = "halt"
    /\ prev.runs = 0
    /\ prev' = [runs |-> 1, outcome |-> outcome, err_args |-> err_args, sinks |-> sinks,
                kind |-> last_tok.kind,
                zero |-> /\ last_tok.kind = "reference"
                         /\ DstOffset(dec_amount, dec_remaining) \in DOMAIN buffer
                         /\ Stored = 0]
    /\ root' \in BOOLEAN
    /\ pos' = 0
    /\ pc' = "start"
    /\ outcome' = "none"
    /\ err_args' = <<>>
    /\ version' = 0 /\ magic' = <<>> /\ count' = 0 /\ offsets' = <<>>
    /\ i' = 0 /\ type' = 0 /\ size' = 0
    /\ rd_ret' = "" /\ rd_amount' = 0 /\ rd_remaining' = 0 /\ rd_buf' = NoMem
    /\ buffer' = NoMem
    /\ exp_input' = "" /\ exp_remaining' = 0 /\ exp_len' = 0
    /\ wr_remaining' = 0
    /\ m_window' = NoMem /\ m_window_index' = 0 /\ m_control_bits' = 0
    /\ m_control_remaining' = 0
    /\ dec_amount' = 0 /\ dec_remaining' = 0
    /\ dec_start' = 0 /\ n_emitted' = 0 /\ tokens' = 0 /\ ctrl_words' = 0
    /\ last_tok' = [kind |-> "none", ofs |-> 0, len |-> 0, before |-> 0]
    /\ n_seek' = 0
    /\ UNCHANGED <<file, sinks, modes>>

NextTwice == Next \/ RunAgain

SpecTwice == InitTwice /\ [][NextTwice]_vars

(***************************************************************************)
(* istream::read on its own: a read of 0..MaxRead bytes from any offset of *)
(* a source of up to MaxSource bytes (offsets[1] keeps where it started).  *)
(***************************************************************************)
\* the variables a specification of a single operation does not use
AtRest ==
    /\ root = FALSE
    /\ prev = NoRun
    /\ outcome = "none"
    /\ err_args = <<>>
    /\ version = 0 /\ magic = <<>> /\ type = 0 /\ size = 0
    /\ sinks = NoMem /\ modes = NoMem
    /\ buffer = NoMem
    /\ exp_remaining = 0 /\ exp_len = 0
    /\ wr_remaining = 0
    /\ m_window = NoMem /\ m_window_index = 0
    /\ n_emitted = 0 /\ tokens = 0
    /\ last_tok = [kind |-> "none", ofs |-> 0, len |-> 0, before |-> 0]

InitRead ==
    /\ AtRest
    /\ file \in {Pattern(n) : n \in 0..MaxSource}
    /\ pos \in 0..(Len(file) + 1)
    /\ offsets = <<pos>>
    /\ count = 1 /\ i = 0 /\ n_seek = 1
    /\ pc = "rd"
    /\ rd_ret = "exact"
    /\ rd_amount \in 0..MaxRead
    /\ rd_remaining = rd_amount
    /\ rd_buf = NoMem
    /\ exp_input = ""
    /\ m_control_bits = 0 /\ m_control_remaining = 0
    /\ dec_amount = 0 /\ dec_remaining = 0
    /\ dec_start = 0 /\ ctrl_words = 0

\* istream::read leaves its loop and returns
ReadReturns ==
    /\ Returned("exact")
    /\ outcome' = "done"
    /\ pc' = "halt"
    /\ UNCHANGED <<file, root, prev, pos, err_args, hdr, i, type, size, rdv, sinks, modes,
                   buffer, expv, wr_remaining, decv, decf, hist, n_seek>>

NextRead == TryRead \/ ReadReturns

SpecRead == InitRead /\ [][NextRead]_vars

(***************************************************************************)
(* The reference branch of ilzrwstream_impl::try_read on its own: a fresh  *)
(* decoder, asked for one byte, has read its control word, found bit 0 set *)
(* and reads the descriptor that follows, which is any 16-bit value; the   *)
(* descriptor is read as a little-endian u16 and its fields are taken.     *)
(***************************************************************************)
DescriptorWidth == 16

\* control words with bit 0 set
ReferenceWords == {1, 65535}

InitDescriptor ==
    /\ AtRest
    /\ \E w \in ReferenceWords :
          /\ file \in {Bytes(w, 2) \o Bytes(d, 2) : d \in 0..(2 ^ DescriptorWidth - 1)}
          /\ m_control_bits = w
    /\ m_control_remaining = ControlBits
    /\ pos = 2
    /\ offsets = <<0>>
    /\ count = 1 /\ i = 0 /\ n_seek = 1
    /\ pc = "rd"
    /\ rd_ret = "descriptor"
    /\ rd_amount = 2
    /\ rd_remaining = 2
    /\ rd_buf = NoMem
    /\ exp_input = "lzrw"
    /\ dec_amount = 1 /\ dec_remaining = 1
    /\ dec_start = 0 /\ ctrl_words = 1

NextDescriptor == TryRead \/ GotDescriptor

SpecDescriptor == InitDescriptor /\ [][NextDescriptor]_vars

TypeOK ==
    /\ pos \in Nat
    /\ outcome \in {"none", "done", "no_images", "end_of_stream", "unknown_version",
                    "unknown_type", "system_error"}
    /\ m_window_index \in 0..(WindowSize - 1)
    /\ m_control_remaining \in 0..ControlBits

(***************************************************************************)
(* Properties.                                                             *)
(***************************************************************************)
DecoderReads == {"control", "descriptor", "literal"}

\* the program is inside a read of dec_amount bytes on the decoder
InDecoderRead ==
    /\ exp_input = "lzrw"
    /\ \/ pc \in {"dec_loop", "dec_token", "dec_copy"}
       \/ pc = "rd" /\ rd_ret \in DecoderReads

\* extract ended inside a read on the decoder
EndedInDecoderRead ==
    /\ pc = "halt"
    /\ exp_input = "lzrw"
    /\ exp_remaining > 0
    /\ i \in DOMAIN sinks
    /\ rd_ret \in DecoderReads

\* the integer stored in the n bytes of the file from offset at on
FileValue(at, n) == LE([k \in 0..(n - 1) |-> file[at + k + 1]], n)

\* C1: a decoder read of n bytes over an input that holds enough tokens for n
\* bytes returns normally once n bytes are emitted: it starts no further
\* token, and it does not run into the end of the input.
C1_ReadReturnsAfterN ==
    /\ (InDecoderRead /\ pc # "dec_loop") => n_emitted < dec_amount
    /\ (EndedInDecoderRead /\ outcome = "end_of_stream") => n_emitted < dec_amount

\* the compressed stream starts: control word with bits 0,1 = 0,1; a literal;
\* a descriptor with distance 1
RunStream ==
    /\ dec_start + 5 <= Len(file)
    /\ FileValue(dec_start, 2) % 4 = 2
    /\ RefOfs(FileValue(dec_start + 3, 2)) = 1

\* C2: on a fresh decoder a literal b followed by a back-reference with
\* distance 1 and length L yields L+1 bytes, all equal to b: the second token
\* is the reference, L+1 bytes were emitted and the output holds b at each of
\* its offsets 0..L.
C2_RunOfLiteral ==
    (InDecoderRead /\ tokens = 2 /\ RunStream) =>
        LET L == RefLen(FileValue(dec_start + 3, 2))
        IN  /\ last_tok.kind = "reference"
            /\ n_emitted = L + 1
            /\ \A k \in 0..Min(L, dec_amount - 1) :
                   k \in DOMAIN buffer /\ buffer[k] = file[dec_start + 3]

\* entry k of the directory is a plain entry whose sink exists: its type byte
\* and size field were read from the file
PlainSink(k) ==
    /\ k \in DOMAIN sinks
    /\ file[offsets[k + 1] + 1] = PlainType

PayloadStart(k) == offsets[k + 1] + 5

PayloadSize(k) == FileValue(offsets[k + 1] + 1, 4)

\* C3: the bytes written to the sink of a plain entry with size field s are
\* the source bytes that follow the size field, in order (at every moment the
\* first ones of them), all s of them once the export has returned; the export
\* fails only when the file holds fewer than s bytes there.
C3_PlainFidelity ==
    \A k \in 0..(count - 1) :
        PlainSink(k) =>
            /\ Len(sinks[k]) <= PayloadSize(k)
            /\ PayloadStart(k) + Len(sinks[k]) <= Len(file)
            /\ sinks[k] = SubSeq(file, PayloadStart(k) + 1, PayloadStart(k) + Len(sinks[k]))
            /\ (k < i \/ outcome = "done") => Len(sinks[k]) = PayloadSize(k)
            /\ (k = i /\ pc = "halt" /\ outcome # "done") =>
                   /\ outcome = "end_of_stream"
                   /\ PayloadStart(k) + PayloadSize(k) > Len(file)

\* a plain entry larger than the copy buffer has been exported completely
C3_Witness ==
    \E k \in 0..(count - 1) :
        PlainSink(k) /\ k < i /\ Len(sinks[k]) > BufSize /\ Len(sinks[k]) = PayloadSize(k)

\* C4: a decoder read whose input is exhausted before the requested bytes are
\* produced ends with end_of_stream, with nothing of the unfinished read
\* written; it never returns to the caller short, and no token or control
\* word is decoded from bytes the input did not deliver.
C4_ExhaustedInputThrows ==
    /\ EndedInDecoderRead =>
           /\ outcome = "end_of_stream"
           /\ pos >= Len(file)
           /\ sinks[i] = <<>>
    /\ (exp_input = "lzrw" /\ pc = "wr") => n_emitted >= exp_len
    /\ (InDecoderRead /\ pc = "rd" /\ rd_remaining = 0) =>
           /\ pos <= Len(file)
           /\ pos >= dec_start + rd_amount
           /\ IF rd_ret = "control"
                THEN m_control_bits = FileValue(pos - 2, 2)
                ELSE /\ DOMAIN rd_buf = 0..(rd_amount - 1)
                     /\ Value(rd_buf, rd_amount) = FileValue(pos - rd_amount, rd_amount)

\* the input ran out in the middle of a decoder read, after some tokens
C4_Witness ==
    /\ EndedInDecoderRead
    /\ outcome = "end_of_stream"
    /\ tokens > 0
    /\ n_emitted < dec_amount

\* C5: one control word is read per 16 tokens, and a stream that ends right
\* after the 16th token, with the requested output complete, raises no
\* end_of_stream.
C5_ControlWordPer16 ==
    /\ (InDecoderRead /\ pc = "dec_loop") => ctrl_words = (tokens + 15) \div 16
    /\ (EndedInDecoderRead /\ tokens = 16 /\ n_emitted >= dec_amount) =>
           outcome # "end_of_stream"

\* C6: a back-reference of length 1 and distance d, decoded after m >= d bytes
\* were emitted, yields the byte emitted at position m - d; stated at
\* distance 1, where that byte is the one emitted last: the copy of such a
\* reference stores the byte that was stored before it.
C6_ReferenceReadsHistory ==
    [][(pc = "dec_copy" /\ pc' = "dec_loop" /\ last_tok.len = 1 /\ last_tok.ofs = 1
          /\ last_tok.before >= 1) => Stored' = Stored]_vars

\* C7: with a version byte other than 8 extract fails with the unknown-version
\* error, having read that byte only: no magic, count or offset, no seek, no sink.
C7_UnknownVersion ==
    (Len(file) >= 1 /\ file[1] # SupportedVersion) =>
        /\ pos <= 1
        /\ n_seek = 0
        /\ sinks = NoMem
        /\ magic = <<>> /\ offsets = <<>>
        /\ pc \in {"start", "rd", "halt"}
        /\ pc = "rd" => rd_ret = "version"
        /\ pc = "halt" => outcome = "unknown_version" /\ err_args = <<file[1]>>

C7_Witness == outcome = "unknown_version" /\ pos = 1

\* C8: with version 8 and a magic other than "LMDBML30" extract ends normally
\* in the "no images" state, having read nine bytes: no count or offset, no
\* seek, no sink.
C8_NoImages ==
    (Len(file) >= 9 /\ file[1] = SupportedVersion /\ SubSeq(file, 2, 9) # BitmapListMagic) =>
        /\ pos <= 9
        /\ n_seek = 0
        /\ sinks = NoMem
        /\ offsets = <<>>
        /\ pc = "rd" => rd_ret \in {"version", "magic"}
        /\ pc \in {"start", "rd", "halt"}
        /\ pc = "halt" => outcome = "no_images" /\ err_args = <<>> /\ pos = 9

C8_Witness == outcome = "no_images" /\ magic # BitmapListMagic /\ pos = 9

\* the type byte of entry i has been read from the file and is neither 8 nor 9
UnknownTypeRead ==
    /\ n_seek = i + 1
    /\ i < count
    /\ ~(pc = "rd" /\ rd_ret = "type")
    /\ offsets[i + 1] < Len(file)
    /\ file[offsets[i + 1] + 1] \notin {PlainType, CompressedType}

\* C9: a type byte other than 8 and 9 at offsets[i] ends extract with the
\* unknown-type error: entry i gets no sink, and nothing is sought, read or
\* created afterwards.
C9_UnknownTypeAborts ==
    UnknownTypeRead =>
        /\ outcome = "unknown_type"
        /\ pc = "halt"
        /\ ~ENABLED Next
        /\ DOMAIN sinks = 0..(i - 1)
        /\ pos = offsets[i + 1] + 1
        /\ n_seek = i + 1

\* the error was raised at the second entry, after a first one was exported
C9_Witness == outcome = "unknown_type" /\ i = 1 /\ DOMAIN sinks = {0} /\ count = 2

\* C10: the unknown-type error carries the index of the failing entry or its
\* directory offset.
C10_ErrorNamesEntry ==
    outcome = "unknown_type" =>
        (i \in Range(err_args) \/ offsets[i + 1] \in Range(err_args))

\* C11: two decoders freshly constructed over the same compressed bytes and
\* asked for the same decoded size end in the same outcome and, where that
\* outcome is success, with the same output bytes, whatever the memory of
\* their windows held (SpecTwice: the second run of the program against the
\* first, where the second run was let open its output files).
C11_SameOutcomeSameBytes ==
    (pc = "halt" /\ prev.runs = 1 /\ outcome # "system_error") =>
        /\ outcome = prev.outcome
        /\ err_args = prev.err_args
        /\ outcome = "done" => sinks = prev.sinks

\* both runs decoded references into never-written window slots and ended
\* alike; the byte the first stored last was 0, that of the second was not
C11_Witness ==
    /\ pc = "halt"
    /\ prev.runs = 1
    /\ prev.kind = "reference"
    /\ prev.zero
    /\ last_tok.kind = "reference"
    /\ m_window = NoMem
    /\ Stored # 0
    /\ outcome = "end_of_stream"
    /\ outcome = prev.outcome

\* the program is at work on entry i: between the seek and the end of its export
InEntry ==
    \/ pc \in {"export", "wr", "dec_loop", "dec_token", "dec_copy"}
    \/ pc = "rd" /\ rd_ret \notin {"version", "magic", "count", "offset"}

\* C12: extract goes header, directory, entries 0, 1, ..., count-1, done: the
\* version is read at offset 0, the count and the count offsets are read one
\* after the other before anything is sought, the entries are visited once
\* each in index order, and with count = 0 extract ends without entry or error.
C12_HeaderDirectoryEntries ==
    /\ (pc = "rd" /\ rd_ret = "version" /\ rd_remaining = rd_amount) => pos = 0
    /\ (pc = "rd" /\ rd_ret \in {"version", "magic", "count", "offset"}) =>
           n_seek = 0 /\ sinks = NoMem
    /\ pc = "offsets" =>
           /\ Len(offsets) <= count
           /\ pos = 13 + 4 * Len(offsets)
           /\ n_seek = 0 /\ sinks = NoMem
    /\ (n_seek > 0 \/ pc = "entries" \/ InEntry) => Len(offsets) = count
    /\ pc = "entries" => n_seek = i /\ i <= count /\ DOMAIN sinks = 0..(i - 1)
    /\ InEntry => n_seek = i + 1 /\ i < count /\ DOMAIN sinks \in {0..(i - 1), 0..i}
    /\ outcome = "done" =>
           i = count /\ n_seek = count /\ DOMAIN sinks = 0..(count - 1)
    /\ (Len(file) >= 13 /\ file[1] = SupportedVersion
          /\ SubSeq(file, 2, 9) = BitmapListMagic /\ FileValue(9, 4) = 0 /\ pc = "halt") =>
           outcome = "done" /\ sinks = NoMem /\ n_seek = 0 /\ pos = 13

\* two entries were visited in turn and extract returned
C12_Witness ==
    outcome = "done" /\ count = 2 /\ n_seek = 2 /\ DOMAIN sinks = {0, 1} /\ i = 2

\* bit k of the 16-bit word w
Bit(w, k) == (w \div (2 ^ k)) % 2

\* C13: one control bit is consumed per token: after t tokens the counter is
\* 16 - t (mod 16, a fresh word being read at 0), the t-th token decoded
\* after the control word w was loaded is a back-reference iff bit t-1 of w
\* is set, and the counter stays within 0..16.
C13_OneBitPerToken ==
    /\ m_control_remaining \in 0..ControlBits
    /\ (InDecoderRead /\ pc = "dec_loop" /\ tokens \in 1..ControlBits) =>
           /\ m_control_remaining = ControlBits - tokens
           /\ (last_tok.kind = "reference") = (Bit(FileValue(dec_start, 2), tokens - 1) = 1)

\* C14: the bytes of a back-reference go into the window like literals: the
\* cursor is the number of bytes emitted (mod 4096), the slots k mod 4096 of
\* the last 4096 emitted positions k are written, and the slot of the last
\* position holds the byte stored last.
C14_WindowHoldsEmitted ==
    (InDecoderRead /\ pc = "dec_loop") =>
        /\ m_window_index = n_emitted % WindowSize
        /\ \A k \in 0..(n_emitted - 1) :
               k >= n_emitted - WindowSize => (k % WindowSize) \in DOMAIN m_window
        /\ n_emitted > 0 => m_window[(n_emitted - 1) % WindowSize] = Stored

\* C15: every window index used to resolve a back-reference is in 0..4095.
C15_IndexInsideWindow ==
    (InDecoderRead /\ pc = "dec_loop" /\ last_tok.kind = "reference") =>
        \A k \in 0..(last_tok.len - 1) :
            RefIndex(m_window_index, last_tok.ofs, k) \in 0..(WindowSize - 1)

\* C16: a decoder starts with its 4096 window bytes zero, cursor 0 and no
\* pending control bit, so a back-reference decoded before any window slot was
\* written, whose last byte comes from inside the window, stores 0.
C16_FreshWindowIsZero ==
    /\ (exp_input = "lzrw" /\ pc = "export" /\ tokens = 0) =>
           /\ m_window_index = 0
           /\ m_control_remaining = 0
           /\ \A k \in 0..(WindowSize - 1) : WindowAt(k) = {0}
    /\ (InDecoderRead /\ pc = "dec_loop" /\ last_tok.kind = "reference"
          /\ m_window = NoMem
          /\ RefIndex(m_window_index, last_tok.ofs, last_tok.len - 1) < WindowSize) =>
           Stored = 0

\* C17: within one decoder read the k-th emitted byte is stored at offset k
\* of the destination, whatever token emitted it: the offsets below the
\* number of bytes emitted are written, and a literal just decoded is at the
\* offset of its position.
C17_OutputAdvances ==
    (InDecoderRead /\ pc = "dec_loop") =>
        /\ \A k \in 0..(Min(n_emitted, dec_amount) - 1) : k \in DOMAIN buffer
        /\ (last_tok.kind = "literal" /\ n_emitted <= dec_amount) =>
               buffer[n_emitted - 1] = file[pos]

\* what the entry at offset off yields, from the file's bytes there alone:
\* how its export ends
EntryResult(off) ==
    IF off >= Len(file) THEN "end_of_stream"
    ELSE IF file[off + 1] = PlainType
      THEN IF off + 5 <= Len(file) /\ off + 5 + FileValue(off + 1, 4) <= Len(file)
             THEN "ok" ELSE "end_of_stream"
    ELSE IF file[off + 1] = CompressedType
      THEN IF off + 10 <= Len(file) /\ FileValue(off + 1, 4) = 0
             THEN "ok" ELSE "end_of_stream"
    ELSE "unknown_type"

\* ... and the bytes of its output file, given as many of them as were written
EntryBytes(off, n) ==
    IF file[off + 1] = PlainType THEN SubSeq(file, off + 6, off + 5 + n) ELSE <<>>

\* C18: the source is at offsets[i] when the type byte of entry i is read, and
\* how entry i ends and what its sink receives follow from offsets[i] and the
\* file alone, whatever the order of the directory and whatever the entries
\* before it consumed.
C18_EntriesIndependent ==
    /\ (pc = "rd" /\ rd_ret = "type" /\ rd_remaining = rd_amount) => pos = offsets[i + 1]
    /\ \A k \in DOMAIN sinks :
           /\ sinks[k] = EntryBytes(offsets[k + 1], Len(sinks[k]))
           /\ (k < i \/ outcome = "done") =>
                  /\ EntryResult(offsets[k + 1]) = "ok"
                  /\ file[offsets[k + 1] + 1] = PlainType =>
                         Len(sinks[k]) = FileValue(offsets[k + 1] + 1, 4)
    /\ (pc = "halt" /\ n_seek = i + 1 /\ i < count) => outcome = EntryResult(offsets[i + 1])

\* a directory in descending order was extracted, its first entry with output
C18_Witness ==
    /\ outcome = "done"
    /\ count = 2
    /\ offsets[1] > offsets[2]
    /\ sinks[0] # <<>>
    /\ sinks[0] = EntryBytes(offsets[1], 4)

\* the bytes of the source ahead of offset p
Ahead(p) == IF p >= Len(file) THEN 0 ELSE Len(file) - p

\* C19: an exact-length read of n bytes over a source that may return short
\* counts stores the next bytes of the source contiguously, in order, as they
\* arrive; it returns only with all n of them, raises end_of_stream only when
\* the source is empty with bytes outstanding, and with n = 0 returns without
\* touching the source (SpecRead).
C19_ExactRead ==
    LET start == offsets[1]
        got == rd_amount - rd_remaining
    IN  /\ got \in 0..rd_amount
        /\ DOMAIN rd_buf = 0..(got - 1)
        /\ \A k \in DOMAIN rd_buf : rd_buf[k] = file[start + k + 1]
        /\ pos = start + got
        /\ outcome \in {"none", "done", "end_of_stream"}
        /\ outcome = "done" => got = rd_amount
        /\ outcome = "end_of_stream" => got < rd_amount /\ Ahead(pos) = 0
        /\ (pc = "halt" /\ rd_amount <= Ahead(start)) => outcome = "done"
        /\ rd_amount = 0 => pos = start /\ rd_buf = NoMem /\ outcome # "end_of_stream"

\* a read got its first bytes by a short count, found the source empty with
\* bytes still outstanding and raised end_of_stream
C19_Witness ==
    /\ rd_ret = "exact"
    /\ outcome = "end_of_stream"
    /\ rd_remaining > 0
    /\ rd_amount - rd_remaining >= 2
    /\ offsets[1] + 1 < Len(file)

\* bits lo..hi of w, as the number they spell
BitField(w, lo, hi) ==
    LET S[k \in lo..(hi + 1)] == IF k > hi THEN 0 ELSE Bit(w, k) * 2 ^ (k - lo) + S[k + 1]
    IN  S[lo]

\* the descriptor the stream holds, low byte first
StreamDescriptor == file[3] + 256 * file[4]

\* C20: for every 16-bit back-reference descriptor d the decoder computes
\* distance = ((d bits 12..15) << 8) | (d bits 0..7), which lies in 0..4095,
\* and length = (d bits 8..11) + 1, which lies in 1..16, a stored length
\* nibble of 0 meaning length 1 (SpecDescriptor).
C20_DescriptorFields ==
    last_tok.kind = "reference" =>
        LET d == StreamDescriptor
        IN  /\ last_tok.ofs = BitField(d, 12, 15) * 256 + BitField(d, 0, 7)
            /\ last_tok.len = BitField(d, 8, 11) + 1
            /\ last_tok.ofs \in 0..4095
            /\ last_tok.len \in 1..16
            /\ BitField(d, 8, 11) = 0 => last_tok.len = 1

\* the descriptor 0xf0ff was decoded: the farthest distance with a stored
\* length nibble of 0
C20_Witness ==
    /\ last_tok.kind = "reference"
    /\ pc = "dec_copy"
    /\ StreamDescriptor = 61695
    /\ last_tok.ofs = 4095
    /\ last_tok.len = 1

====
